---- MODULE Spec2Model ----
(***************************************************************************)
(* A model of ornithology's data acquisition pipeline:                     *)
(*   - the OAuth2 negotiation of RawClient::new and the single-use         *)
(*     callback listener of oauth::redirect_server        (SpecAuth)       *)
(*   - one call through tower::retry::Retry<TwitterRateLimitPolicy,       *)
(*     RawClient>, as made by Client::whoami              (SpecCall)       *)
(*   - the paginated fetch of page_at_a_time! behind a                     *)
(*     tower::limit::RateLimit                            (SpecFetch)      *)
(* Time is counted in ticks; one second is TicksPerSec ticks, so that      *)
(* sub-second instants exist.                                              *)
(***************************************************************************)
EXTENDS Integers, Sequences, FiniteSets, TLC

VARIABLES
    now,          \* the clock, in ticks
    \* ---- authorization negotiation (api.rs RawClient::new, oauth.rs) ----
    neg,          \* position of RawClient::new
    csrf_token,   \* the CSRF token generated by authorize_url
    failReason,   \* reason carried by the error RawClient::new returned
    slot,         \* Arc<Mutex<Option<(tx, shut)>>>: TRUE when Some
    rx,           \* the oneshot channel read by `auth.await`
    serverUp,     \* the listener still accepts connections
    downCount,    \* number of graceful-shutdown signals sent
    handlers,     \* one callback handler invocation per accepted request
    fired,        \* handler ids in the order they ran `take()`
    delivered,    \* payloads accepted by tx.send, in order
    received,     \* the payload `auth.await` returned to the negotiation
    tokenReqs,    \* requests sent to the token endpoint
    oauth,        \* the bearer credential held by RawClient
    \* ---- request service and paginated fetch (api.rs) ----
    calls,        \* call id -> state of one Retry::call future
    sentLog,      \* every HTTP request sent by RawClient::call
    recentSent,   \* clock values of the requests sent less than Per ago
    fetch,        \* locals of page_at_a_time!
    gate,         \* tower::limit::RateLimit state
    dispatchLog,  \* clock values of the calls made through the gate less
                  \* than Per ago
    \* ---- archive extraction (archive.rs) and load (main.rs) ----
    arc,          \* locals of one call of archive::parse
    load,         \* locals of load()
    cache,        \* the contents of cache.json
    main          \* locals of main() behind load(): the report stage

authVars == <<neg, csrf_token, failReason, slot, rx, serverUp, downCount,
              handlers, fired, delivered, received, tokenReqs>>
svcVars == <<calls, sentLog, recentSent, fetch, gate, dispatchLog>>
pipeVars == <<arc, load, cache, main>>
vars == <<now, authVars, oauth, svcVars, pipeVars>>

----------------------------------------------------------------------------
(* Bounds of the model *)

TicksPerSec == 2
MaxTime == 4
MaxCallbacks == 2
Max429 == 2
MaxFetch429 == 1
MaxIds == 3
MaxId == 2
MaxPageSize == 2
MaxGateIds == 4
RateNum == 2
RatePer == 1
MaxEntryLen == 5
MaxTweets == 4

\* The window of the rate budget, in ticks.
Per == RatePer * TicksPerSec

----------------------------------------------------------------------------
(* The redirect payload: oauth.rs `enum Redirect` and `struct Error` *)

CsrfTokens == {"s1", "s2"}

AuthCodes == {"c1"}

AuthErrorKind ==
    {"invalid_request", "access_denied", "unauthorized_client",
     "unsupported_response_type", "invalid_scope", "server_error",
     "temporarily_unavailable"}

NoPayload == [tag |-> "None", code |-> "none", kind |-> "none", state |-> "none"]

RedirectAuthorized ==
    {[tag |-> "Authorized", code |-> c, kind |-> "none", state |-> s] :
        c \in AuthCodes, s \in CsrfTokens}

RedirectError ==
    {[tag |-> "Error", code |-> "none", kind |-> k, state |-> s] :
        k \in AuthErrorKind, s \in CsrfTokens}

Redirect == RedirectAuthorized \cup RedirectError

Tokens == {"tokA", "tokB"}

NoToken == "none"

H == 1..MaxCallbacks

\* The query of a request to /callback, by the parameters Redirect looks
\* at; "none" is a parameter that is not there, "bogus" an error code that
\* is no AuthErrorKind.
NoQuery == [code |-> "none", error |-> "none", state |-> "none"]

Queries ==
    [code : {"none"} \cup AuthCodes,
     error : {"none", "bogus"} \cup AuthErrorKind,
     state : {"none"} \cup CsrfTokens]

\* The query a payload serializes to.
QueryOf(p) == [code |-> p.code, error |-> p.kind, state |-> p.state]

\* Mutant of FromQuery: an error redirect need not carry a state.
FromQueryStateOptional(q) ==
    IF q.code # "none" /\ q.state # "none"
       THEN [tag |-> "Authorized", code |-> q.code, kind |-> "none",
             state |-> q.state]
    ELSE IF q.error \in AuthErrorKind
       THEN [tag |-> "Error", code |-> "none", kind |-> q.error,
             state |-> q.state]
    ELSE NoPayload

\* Query<Redirect>: the untagged enum is tried variant by variant, Authorized
\* first; parameters a variant does not name are ignored. NoPayload is the
\* rejection of the extractor.
FromQuery(q) ==
    IF q.code # "none" /\ q.state # "none"
       THEN [tag |-> "Authorized", code |-> q.code, kind |-> "none",
             state |-> q.state]
    ELSE IF q.error \in AuthErrorKind /\ q.state # "none"
       THEN [tag |-> "Error", code |-> "none", kind |-> q.error,
             state |-> q.state]
    ELSE NoPayload

NoHandler == [pc |-> "none", payload |-> NoPayload, query |-> NoQuery]

NoRx == [alive |-> FALSE, val |-> NoPayload]

----------------------------------------------------------------------------
(* oauth::redirect_server and the /callback handler *)

\* redirect_server(): both oneshot channels are created, the pair (tx, shut)
\* is stored in the mutex-protected Option, and the listener is spawned.
RedirectServer ==
    /\ neg = "Idle"
    /\ neg' = "ServerListening"
    /\ slot' = TRUE
    /\ rx' = [alive |-> TRUE, val |-> NoPayload]
    /\ serverUp' = TRUE
    /\ UNCHANGED <<now, pipeVars, csrf_token, failReason, downCount, handlers, fired,
                   delivered, received, tokenReqs, oauth, svcVars>>

\* A request whose query deserializes as a Redirect is accepted by the
\* listener; its handler has not run yet.
CallbackArrive(h, p) ==
    /\ serverUp
    /\ handlers[h].pc = "none"
    /\ h > 1 => handlers[h - 1].pc # "none"
    /\ handlers' = [handlers EXCEPT ![h] = [pc |-> "lock", payload |-> p,
                                            query |-> QueryOf(p)]]
    /\ UNCHANGED <<now, pipeVars, neg, csrf_token, failReason, slot, rx, serverUp,
                   downCount, fired, delivered, received, tokenReqs, oauth,
                   svcVars>>

\* A request to /callback with the query q reaches the listener: the
\* extractor deserializes the query before the handler is run, and answers
\* a query that is no Redirect itself, without running the handler.
CallbackRequest(h, q) ==
    /\ serverUp
    /\ handlers[h].pc = "none"
    /\ h > 1 => handlers[h - 1].pc # "none"
    /\ handlers' = [handlers EXCEPT ![h] =
                       [pc |-> IF FromQuery(q) = NoPayload THEN "rejected"
                                                            ELSE "lock",
                        payload |-> FromQuery(q), query |-> q]]
    /\ UNCHANGED <<now, pipeVars, neg, csrf_token, failReason, slot, rx, serverUp,
                   downCount, fired, delivered, received, tokenReqs, oauth,
                   svcVars>>

\* Mutant of SlotAfterTake: the Option is read but left in place.
SlotKept == TRUE

\* Option::take() leaves None behind.
SlotAfterTake == FALSE

\* Mutant of AfterTake: the handler signals the shutdown without sending.
ShutFirst == "shut"

\* What the handler does with the pair it took: tx.send(token) comes first.
AfterTake == "send"

\* tx.lock().expect(..).take().expect("only called once")
CallbackTake(h) ==
    /\ handlers[h].pc = "lock"
    /\ IF slot
          THEN /\ slot' = SlotAfterTake
               /\ fired' = Append(fired, h)
               /\ handlers' = [handlers EXCEPT ![h].pc = AfterTake]
          ELSE /\ handlers' = [handlers EXCEPT ![h].pc = "panicked"]
               /\ UNCHANGED <<slot, fired>>
    /\ UNCHANGED <<now, pipeVars, neg, csrf_token, failReason, rx, serverUp, downCount,
                   delivered, received, tokenReqs, oauth, svcVars>>

\* let _ = tx.send(token): fails, and is ignored, when the receiver is gone.
CallbackSend(h) ==
    /\ handlers[h].pc = "send"
    /\ handlers' = [handlers EXCEPT ![h].pc = "shut"]
    /\ IF rx.alive
          THEN /\ rx' = [rx EXCEPT !.val = handlers[h].payload]
               /\ delivered' = Append(delivered, handlers[h].payload)
          ELSE UNCHANGED <<rx, delivered>>
    /\ UNCHANGED <<now, pipeVars, neg, csrf_token, failReason, slot, serverUp, downCount,
                   fired, received, tokenReqs, oauth, svcVars>>

\* let _ = shut.send(()): the graceful shutdown stops the accept loop; the
\* handler then answers 201.
CallbackShut(h) ==
    /\ handlers[h].pc = "shut"
    /\ handlers' = [handlers EXCEPT ![h].pc = "replied"]
    /\ downCount' = downCount + 1
    /\ serverUp' = FALSE
    /\ UNCHANGED <<now, pipeVars, neg, csrf_token, failReason, slot, rx, fired,
                   delivered, received, tokenReqs, oauth, svcVars>>

\* The spawned listener task ends with an error before it has accepted a
\* callback (`if let Err(e) = server...await`): the router is dropped, and
\* with it the pair (tx, shut) it still holds.
ListenerFails ==
    /\ serverUp
    /\ slot
    /\ \A h \in H : handlers[h].pc = "none"
    /\ serverUp' = FALSE
    /\ slot' = FALSE
    /\ UNCHANGED <<now, pipeVars, neg, csrf_token, failReason, rx, downCount,
                   handlers, fired, delivered, received, tokenReqs, oauth,
                   svcVars>>

----------------------------------------------------------------------------
(* RawClient::new *)

\* authorize_url(CsrfToken::new_random) and open::that(auth_url)
AuthorizeUrl(s, opened) ==
    /\ neg = "ServerListening"
    /\ csrf_token' = s
    /\ IF opened
          THEN /\ neg' = "AwaitingRedirect"
               /\ UNCHANGED <<failReason, rx>>
          ELSE /\ neg' = "Failed"
               /\ failReason' = "forward to Twitter for authorization"
               /\ rx' = [rx EXCEPT !.alive = FALSE]
    /\ UNCHANGED <<now, pipeVars, slot, serverUp, downCount, handlers, fired, delivered,
                   received, tokenReqs, oauth, svcVars>>

\* Mutant of StateMatches: the guard of the first match arm never fires.
StateNeverChecked(state, csrf) == TRUE

\* `&*state != csrf_token.secret()` negated
StateMatches(state, csrf) == state = csrf

\* Mutant of RedirectOutcome: an error payload is exchanged like a code.
ExchangeOnError(p, csrf) ==
    IF p.tag = "Authorized" /\ ~StateMatches(p.state, csrf)
       THEN [next |-> "Failed", reason |-> "bad csrf token", exchange |-> FALSE]
       ELSE [next |-> "Exchanging", reason |-> "none", exchange |-> TRUE]

\* The outcome of the match on `auth.await`: what the negotiation does with
\* the payload p.
RedirectOutcome(p, csrf) ==
    IF p.tag = "Authorized"
       THEN IF ~StateMatches(p.state, csrf)
               THEN [next |-> "Failed", reason |-> "bad csrf token", exchange |-> FALSE]
               ELSE [next |-> "Exchanging", reason |-> "none", exchange |-> TRUE]
       ELSE [next |-> "Failed", reason |-> p.kind, exchange |-> FALSE]

\* auth.await returns the payload; on the Authorized arm with a matching state
\* the code is submitted to the token endpoint.
AwaitRedirect ==
    /\ neg = "AwaitingRedirect"
    /\ rx.val # NoPayload
    /\ received' = rx.val
    /\ rx' = NoRx
    /\ LET o == RedirectOutcome(rx.val, csrf_token) IN
          /\ neg' = o.next
          /\ failReason' = o.reason
          /\ tokenReqs' = IF o.exchange THEN tokenReqs + 1 ELSE tokenReqs
    /\ UNCHANGED <<now, pipeVars, csrf_token, slot, serverUp, downCount, handlers, fired,
                   delivered, oauth, svcVars>>

\* The sender of the oneshot was dropped without a send: the receiver is
\* alive and empty, and the pair is neither in the Option nor held by a
\* handler that is about to send.
SenderDropped ==
    /\ rx.alive
    /\ rx.val = NoPayload
    /\ ~slot
    /\ \A h \in H : handlers[h].pc # AfterTake

\* auth.await returns Err(RecvError): .context("oauth callback is called")?
AwaitRedirectLost ==
    /\ neg = "AwaitingRedirect"
    /\ SenderDropped
    /\ neg' = "Failed"
    /\ failReason' = "oauth callback is called"
    /\ rx' = NoRx
    /\ UNCHANGED <<now, pipeVars, csrf_token, slot, serverUp, downCount, handlers,
                   fired, delivered, received, tokenReqs, oauth, svcVars>>

\* The token endpoint answers the exchange.
TokenResponse(ok, t) ==
    /\ neg = "Exchanging"
    /\ IF ok
          THEN /\ neg' = "Authorized"
               /\ oauth' = t
               /\ UNCHANGED failReason
          ELSE /\ neg' = "Failed"
               /\ failReason' = "exchange oauth code"
               /\ UNCHANGED oauth
    /\ UNCHANGED <<now, pipeVars, csrf_token, slot, rx, serverUp, downCount, handlers,
                   fired, delivered, received, tokenReqs, svcVars>>

----------------------------------------------------------------------------
(* Requests, responses and the remote *)

MeUrl == [endpoint |-> "me", ids |-> <<>>]

NoUrl == [endpoint |-> "none", ids |-> <<>>]

NoOutcome == [kind |-> "none", status |-> 0, reset |-> -1, body |-> "none"]

TransportError == [kind |-> "err", status |-> 0, reset |-> -1, body |-> "none"]

\* Responses with a status other than 429. The body is an envelope with one
\* record per requested id ("data"), an envelope lacking the record of the
\* first id ("partial"), or text that is no envelope ("junk").
OtherResponses ==
    {[kind |-> "resp", status |-> 200, reset |-> -1, body |-> b] :
        b \in {"data", "partial", "junk"}}
    \cup {[kind |-> "resp", status |-> 500, reset |-> -1, body |-> "junk"]}

\* The reset instants a 429 may name, in epoch seconds: those the clock of
\* the model reaches.
ResetSecs == {r \in 0..MaxTime : r * TicksPerSec <= MaxTime}

LastResetSec == CHOOSE r \in ResetSecs : \A q \in ResetSecs : q <= r

\* 429 responses; reset is the x-rate-limit-reset header in epoch seconds,
\* -1 when the header is absent or is not a number.
TooManyRequests ==
    {[kind |-> "resp", status |-> 429, reset |-> r, body |-> "junk"] :
        r \in {-1} \cup ResetSecs}

Outcomes == {TransportError} \cup OtherResponses \cup TooManyRequests

\* What the remote answers to a batch request: as Outcomes, with a 429 naming
\* the earliest or the latest reset instant.
BatchOutcomes ==
    {TransportError} \cup OtherResponses
    \cup {o \in TooManyRequests : o.reset \in {0, LastResetSec}}

\* The answers of a remote that never fails: the full envelope, or a 429.
GateOutcomes ==
    {o \in BatchOutcomes : o.status = 429 \/ (o.status = 200 /\ o.body = "data")}

\* The separator written between two ids of idsstr; ids are 1 or more.
Comma == 0

MaxCalls == IF MaxIds > MaxGateIds THEN MaxIds ELSE MaxGateIds

CallIds == 0..MaxCalls

NoCall ==
    [st |-> "none", url |-> NoUrl, cloneable |-> TRUE, last |-> NoOutcome,
     result |-> NoOutcome, retries |-> 0, t429 |-> 0, wait429 |-> 0,
     slept |-> FALSE]

NewCall(u, cl, st) == [NoCall EXCEPT !.st = st, !.url = u, !.cloneable = cl]

\* The ids of a comma-joined list, as the remote reads them.
RECURSIVE SplitIds(_)
SplitIds(str) ==
    IF str = <<>> THEN <<>>
    ELSE IF Head(str) = Comma THEN SplitIds(Tail(str))
    ELSE <<Head(str)>> \o SplitIds(Tail(str))

\* The `data` array of a response body to a request for url u.
BodyData(u, body) ==
    LET want == SplitIds(u.ids) IN
    IF body = "data" THEN want
    ELSE IF body = "partial" /\ want # <<>> THEN Tail(want)
    ELSE <<>>

----------------------------------------------------------------------------
(* RawClient::call *)

\* Mutant of SentBy: the request goes out without the credential.
SentByNobody(c, u) == [call |-> c, url |-> u, bearer |-> NoToken]

\* req.bearer_auth(self.oauth.access_token().secret()).send()
SentBy(c, u) == [call |-> c, url |-> u, bearer |-> oauth]

----------------------------------------------------------------------------
(* TwitterRateLimitPolicy, driven by tower::retry::Retry *)

\* Mutant of IsRetryable: server errors are retried as well.
RetryServerErrors(o) == o.kind = "resp" /\ o.status \in {429, 500}

\* retry(): the match on `result`; None is returned unless this holds.
IsRetryable(o) == o.kind = "resp" /\ o.status = 429

\* Duration::as_secs: whole seconds, the fraction is dropped.
AsSecs(d) == d \div TicksPerSec

\* `time` of retry(): UNIX_EPOCH + Duration::from_secs(reset), in ticks.
ResetInstant(reset) == reset * TicksPerSec

\* The match on time.duration_since(SystemTime::now()): the first arm.
ShouldSleep(reset, t) ==
    /\ ResetInstant(reset) >= t
    /\ AsSecs(ResetInstant(reset) - t) > 1

\* Mutant of TryClone: no request is ever cloned.
NeverCloned(cl) == FALSE

\* Mutant of TryClone: a clone is always at hand.
AlwaysCloned(cl) == TRUE

\* clone_request(): RequestBuilder::try_clone
TryClone(cl) == cl

\* Mutant of HeaderParses: a missing or unreadable header counts as read.
HeaderTakenAsRead(reset) == TRUE

\* The chain of expects on x-rate-limit-reset: the header is there, is
\* text, and parses as u64. Of a 429, reset is -1 when one of them fails.
HeaderParses(reset) == reset >= 0

\* Retry's future sees the outcome o of the request of call k at time t: the
\* outcome is handed back ("done"), or the policy's future is created and
\* polled at once; without a sleep the request is reissued in the same poll
\* ("inflight" again).
AfterOutcome(k, o, t) ==
    IF TryClone(k.cloneable) /\ IsRetryable(o)
       THEN IF ~HeaderParses(o.reset)
               THEN [k EXCEPT !.st = "panicked", !.last = o]
               ELSE LET w == ResetInstant(o.reset) - t
                        k1 == [k EXCEPT !.retries = k.retries + 1, !.t429 = t,
                                        !.wait429 = w, !.last = o]
                    IN IF ShouldSleep(o.reset, t)
                          THEN [k1 EXCEPT !.st = "sleeping", !.slept = TRUE]
                          ELSE [k1 EXCEPT !.slept = FALSE]
       ELSE [k EXCEPT !.st = "done", !.result = o, !.last = o, !.t429 = 0,
                      !.wait429 = 0]

\* Mutant of Polled: the futures make progress at any time.
PolledAlways(c) == TRUE

\* The futures of the batches are polled only while page_at_a_time! is
\* suspended in its select! or in its final drain; whoami awaits its call.
Polled(c) == c = 0 \/ fetch.pc \in {"select", "drain"}

\* Mutant of WakeAt: a deadline the sleep never reaches.
WakeAtNever(k) == MaxTime + 1

\* The deadline of tokio::time::sleep(d), d being the wait of the last 429.
WakeAt(k) == k.t429 + k.wait429

\* The retries decided so far; the remote of the model answers 429 only
\* while they are below a bound.
TotalRetries == LET RECURSIVE Sum(_)
                Sum(c) == IF c < 0 THEN 0 ELSE calls[c].retries + Sum(c - 1)
            IN Sum(MaxCalls)

\* tokio::time::sleep(d) has elapsed; Retry reissues the cloned request.
Wake(c) ==
    /\ calls[c].st = "sleeping"
    /\ Polled(c)
    /\ now >= WakeAt(calls[c])
    /\ calls' = [calls EXCEPT ![c].st = "inflight"]
    /\ sentLog' = Append(sentLog, SentBy(c, calls[c].url))
    /\ recentSent' = Append(recentSent, now)
    /\ UNCHANGED <<now, pipeVars, authVars, oauth, fetch, gate, dispatchLog>>

\* The entries of a log of clock values that lie less than Per before t.
Recent(log, t) == SelectSeq(log, LAMBDA x : t - x < Per)

\* Time passes.
Tick ==
    /\ now < MaxTime
    /\ now' = now + 1
    /\ recentSent' = Recent(recentSent, now + 1)
    /\ dispatchLog' = Recent(dispatchLog, now + 1)
    /\ UNCHANGED <<pipeVars, authVars, oauth, calls, sentLog, fetch, gate>>

----------------------------------------------------------------------------
(* Client::whoami and Client::parse *)

\* Mutant of ParseOk: whatever came back is taken for an envelope.
ParseAnything(o) == TRUE

\* parse(): the body deserializes as Data<T>; the status is not looked at.
ParseOk(o) == o.kind = "resp" /\ o.body \in {"data", "partial"}

\* self.0.ready().await?.call(req): Retry and RawClient are always ready, the
\* request is sent as the returned future is awaited.
Whoami(cl) ==
    /\ oauth # NoToken
    /\ calls[0].st = "none"
    /\ fetch.pc = "idle"
    /\ calls' = [calls EXCEPT ![0] = NewCall(MeUrl, cl, "inflight")]
    /\ sentLog' = Append(sentLog, SentBy(0, MeUrl))
    /\ recentSent' = Append(recentSent, now)
    /\ UNCHANGED <<now, pipeVars, authVars, oauth, fetch, gate, dispatchLog>>

\* The remote answers the request of whoami; with st = "done" the call has
\* returned calls[0].result to whoami, which parses it.
WhoamiRespond(o) ==
    /\ calls[0].st = "inflight"
    /\ o.status = 429 => TotalRetries < Max429
    /\ LET k == AfterOutcome(calls[0], o, now) IN
          /\ calls' = [calls EXCEPT ![0] = k]
          /\ sentLog' = IF k.st = "inflight"
                           THEN Append(sentLog, SentBy(0, k.url))
                           ELSE sentLog
          /\ recentSent' = IF k.st = "inflight"
                              THEN Append(recentSent, now)
                              ELSE recentSent
    /\ UNCHANGED <<now, pipeVars, authVars, oauth, fetch, gate, dispatchLog>>

----------------------------------------------------------------------------
(* tower::limit::RateLimit, as used by page_at_a_time! *)

\* RateLimit::new(&mut $this.0, $rate)
GateNew(t) == [state |-> "Ready", until |-> t, rem |-> RateNum]

\* Mutant of GatePollReady: the sleep of a limited gate is never looked at.
GateStaysLimited(g, t) == g

\* svc.ready(): poll_ready. A limited gate becomes ready when its sleep has
\* elapsed, and then opens a fresh window.
GatePollReady(g, t) ==
    IF g.state = "Limited" /\ t >= g.until
       THEN [state |-> "Ready", until |-> t + Per, rem |-> RateNum]
       ELSE g

\* Service::call(&mut svc, req) on a ready gate.
GateCall(g, t) ==
    LET until == IF t >= g.until THEN t + Per ELSE g.until
        rem == IF t >= g.until THEN RateNum ELSE g.rem
    IN IF rem > 1
          THEN [state |-> "Ready", until |-> until, rem |-> rem - 1]
          ELSE [state |-> "Limited", until |-> until, rem |-> 0]

----------------------------------------------------------------------------
(* page_at_a_time! *)

IdSet == 1..MaxId

\* The inputs of a fetch: identifiers are opaque and never compared by the
\* program, so the first one is taken to be 1.
Inputs ==
    {s \in UNION {[1..k -> IdSet] : k \in 0..MaxIds} : s # <<>> => s[1] = 1}

\* Inputs for the runs that exercise the gate: k identifiers, all 1.
GateInputs == {[i \in 1..k |-> 1] : k \in 0..MaxGateIds}

Endpoints == {"tweets"}

NoFetch ==
    [pc |-> "idle", endpoint |-> "none", ids |-> <<>>, P |-> 1, it |-> 0,
     page |-> 0, req |-> NoUrl, futs |-> {}, all |-> <<>>]

Min(a, b) == IF a < b THEN a ELSE b

\* The loop over (&mut ids).take(PAGE_SIZE) that writes idsstr.
RECURSIVE WriteIds(_, _)
WriteIds(idsstr, taken) ==
    IF taken = <<>> THEN idsstr
    ELSE WriteIds(IF idsstr = <<>>
                     THEN <<Head(taken)>>
                     ELSE idsstr \o <<Comma, Head(taken)>>,
                  Tail(taken))

\* Mutant of TakeIds: every page takes from a fresh iterator.
TakeIdsFromStart(ids, it, P) == SubSeq(ids, 1, Min(P, Len(ids)))

\* (&mut ids).take(PAGE_SIZE): the next P identifiers of the iterator, of
\* which `it` were consumed, or those that are left.
TakeIds(ids, it, P) == SubSeq(ids, it + 1, Min(it + P, Len(ids)))

\* Client::tweets / Client::users: the macro's prologue.
StartFetch(ep, input, P) ==
    /\ oauth # NoToken
    /\ fetch.pc = "idle"
    /\ calls[0].st = "none"
    /\ fetch' = [NoFetch EXCEPT !.pc = "page", !.endpoint = ep,
                                !.ids = input, !.P = P]
    /\ gate' = GateNew(now)
    /\ UNCHANGED <<now, pipeVars, authVars, oauth, calls, sentLog, recentSent, dispatchLog>>

\* Mutant of PageStart: pages are counted from one.
PageStartOffByOne(page, P) == (page + 1) * P

\* let i = page * PAGE_SIZE
PageStart(page, P) == page * P

\* Top of `for page in 0..`: leave the loop, or build the next request.
NextPage ==
    /\ fetch.pc = "page"
    /\ IF PageStart(fetch.page, fetch.P) >= Len(fetch.ids)
          THEN fetch' = [fetch EXCEPT !.pc = "drain"]
          ELSE LET taken == TakeIds(fetch.ids, fetch.it, fetch.P)
               IN fetch' = [fetch EXCEPT
                     !.pc = "select",
                     !.it = fetch.it + Len(taken),
                     !.req = [endpoint |-> fetch.endpoint,
                              ids |-> WriteIds(<<>>, taken)]]
    /\ UNCHANGED <<now, pipeVars, authVars, oauth, calls, sentLog, recentSent, gate, dispatchLog>>

\* select!: the branch `ready = svc.ready()` completes; break.
SelectReady ==
    /\ fetch.pc = "select"
    /\ GatePollReady(gate, now).state = "Ready"
    /\ gate' = GatePollReady(gate, now)
    /\ fetch' = [fetch EXCEPT !.pc = "call"]
    /\ UNCHANGED <<now, pipeVars, authVars, oauth, calls, sentLog, recentSent, dispatchLog>>

\* tower::Service::call(&mut svc, req) and futs.push(..): the gate counts the
\* call; the future of the batch is created but not yet polled.
Dispatch ==
    /\ fetch.pc = "call"
    /\ LET c == fetch.page + 1 IN
       IF gate.state = "Ready"
          THEN /\ gate' = GateCall(gate, now)
               /\ dispatchLog' = Append(dispatchLog, now)
               /\ calls' = [calls EXCEPT ![c] = NewCall(fetch.req, TRUE, "created")]
               /\ fetch' = [fetch EXCEPT !.pc = "page", !.page = fetch.page + 1,
                                         !.req = NoUrl,
                                         !.futs = fetch.futs \cup {c}]
          ELSE /\ fetch' = [fetch EXCEPT !.pc = "panicked"]
               /\ UNCHANGED <<gate, dispatchLog, calls>>
    /\ UNCHANGED <<now, pipeVars, authVars, oauth, sentLog, recentSent>>

\* The requests of the futures in cs, sent in the order of their call ids.
RECURSIVE SendAll(_, _)
SendAll(log, cs) ==
    IF cs = {} THEN log
    ELSE LET c == CHOOSE x \in cs : \A y \in cs : x <= y
         IN SendAll(Append(log, SentBy(c, calls[c].url)), cs \ {c})

\* futs.next() polls the futures pushed since it was last polled: their
\* requests are sent by RawClient.
PollFuts ==
    /\ fetch.pc \in {"select", "drain"}
    /\ LET fresh == {c \in fetch.futs : calls[c].st = "created"} IN
          /\ fresh # {}
          /\ calls' = [c \in CallIds |->
                          IF c \in fresh THEN [calls[c] EXCEPT !.st = "inflight"]
                                         ELSE calls[c]]
          /\ sentLog' = SendAll(sentLog, fresh)
          /\ recentSent' = recentSent \o [i \in 1..Cardinality(fresh) |-> now]
    /\ UNCHANGED <<now, pipeVars, authVars, oauth, fetch, gate, dispatchLog>>

\* Mutant of Extend: the chunk is put in front.
ExtendFront(all, chunk) == chunk \o all

\* all.extend(chunk)
Extend(all, chunk) == all \o chunk

\* futs.next() polls the future of batch c as the remote answers. When the
\* future completes, its chunk is the result of futs.next(): in the select!
\* (`chunk.context("grab next chunk")?`) or in the final drain
\* (`.transpose().context("grab chunks")?`) it is appended to `all`, or the
\* error is returned and futs is dropped.
BatchRespond(c, o) ==
    /\ c \in fetch.futs
    /\ calls[c].st = "inflight"
    /\ Polled(c)
    /\ o.status = 429 => TotalRetries < MaxFetch429
    /\ LET k == AfterOutcome(calls[c], o, now) IN
          /\ sentLog' = IF k.st = "inflight"
                           THEN Append(sentLog, SentBy(c, k.url))
                           ELSE sentLog
          /\ recentSent' = IF k.st = "inflight"
                              THEN Append(recentSent, now)
                              ELSE recentSent
          /\ IF k.st = "panicked"
                THEN /\ calls' = [calls EXCEPT ![c] = k]
                     /\ fetch' = [fetch EXCEPT !.pc = "panicked"]
             ELSE IF k.st # "done"
                THEN /\ calls' = [calls EXCEPT ![c] = k]
                     /\ UNCHANGED fetch
             ELSE IF ParseOk(o)
                THEN /\ calls' = [calls EXCEPT ![c] = k]
                     /\ fetch' = [fetch EXCEPT
                           !.all = Extend(fetch.all, BodyData(k.url, o.body)),
                           !.futs = fetch.futs \ {c}]
                ELSE /\ calls' = [d \in CallIds |->
                           IF d = c THEN k
                           ELSE IF d \in fetch.futs
                                   THEN [calls[d] EXCEPT !.st = "dropped"]
                                   ELSE calls[d]]
                     /\ fetch' = [fetch EXCEPT !.pc = "failed", !.futs = {}]
    /\ UNCHANGED <<now, pipeVars, authVars, oauth, gate, dispatchLog>>

\* The drain loop ends when futs is empty: bar.finish(); Ok(all)
DrainDone ==
    /\ fetch.pc = "drain"
    /\ fetch.futs = {}
    /\ fetch' = [fetch EXCEPT !.pc = "done"]
    /\ UNCHANGED <<now, pipeVars, authVars, oauth, calls, sentLog, recentSent, gate, dispatchLog>>

----------------------------------------------------------------------------
(* archive.rs: archive::parse and serde_json_array_iter *)

\* The characters of an archive entry. "x" is a character of the declaration
\* that precedes the array (any character that is neither whitespace nor the
\* start of a token of the array), " " is whitespace, and "a" and "b" each
\* stand for one whole object `{...}` that decodes as an element: serde_json
\* reads an object up to its closing brace and no further.
Chars == {"x", "[", "]", ",", " ", "a", "b"}

\* The objects that decode as an element; "c" and "d" occur only in the
\* arrays of TweetEntries.
Elements == {"a", "b", "c", "d"}

NoByte == "eof"

NoElem == [id |-> 0, rt |-> FALSE]

\* The accountId or id of an element.
IdOf(ch) ==
    CASE ch = "a" -> 1
      [] ch = "c" -> 3
      [] ch = "d" -> 4
      [] OTHER -> 2

\* The full_text of a tweet, character by character.
FullText(ch) ==
    CASE ch = "a" -> <<"h", "i">>
      [] ch = "c" -> <<"R", "T", ":", " ", "@", "u">>
      [] ch = "d" -> <<"R", "T", " ", "@", "v", " ", "y">>
      [] OTHER -> <<"R", "T", " ", "@", "u", " ", "x">>

\* str::starts_with
StartsWith(text, prefix) ==
    Len(text) >= Len(prefix) /\ SubSeq(text, 1, Len(prefix)) = prefix

\* Mutant of IsOldRt: the text is tested for "RT" alone.
IsOldRtByInitials(text) == StartsWith(text, <<"R", "T">>)

\* t.text.starts_with("RT @") in the closure load() passes for tweet.js
IsOldRt(text) == StartsWith(text, <<"R", "T", " ", "@">>)

\* Follower::One { id } and Tweet::One { id, text }, and for data/tweet.js
\* what the closure will decide on the text: rt is TRUE for a tweet that is
\* put aside as an old retweet.
Decode(datafile, ch) ==
    [id |-> IdOf(ch), rt |-> datafile = "tweet" /\ IsOldRt(FullText(ch))]

\* Mutant of IsAsciiWhitespace: no byte is skipped.
NothingIsWhitespace(b) == FALSE

\* u8::is_ascii_whitespace
IsAsciiWhitespace(b) == b = " "

\* The whitespace serde_json skips in front of a value.
IsJsonWhitespace(b) == b = " "

\* read_skipping_ws: the first byte after the `pos` consumed ones that is no
\* whitespace; read_exact fails at the end of the input.
RECURSIVE ReadSkippingWs(_, _)
ReadSkippingWs(bytes, pos) ==
    IF pos >= Len(bytes) THEN [ok |-> FALSE, byte |-> NoByte, pos |-> pos]
    ELSE IF IsAsciiWhitespace(bytes[pos + 1]) THEN ReadSkippingWs(bytes, pos + 1)
    ELSE [ok |-> TRUE, byte |-> bytes[pos + 1], pos |-> pos + 1]

\* Deserializer::from_reader(reader).into_iter().next(): parse_whitespace.
RECURSIVE ParseWhitespace(_, _)
ParseWhitespace(bytes, pos) ==
    IF pos >= Len(bytes) THEN [ok |-> FALSE, byte |-> NoByte, pos |-> pos]
    ELSE IF IsJsonWhitespace(bytes[pos + 1]) THEN ParseWhitespace(bytes, pos + 1)
    ELSE [ok |-> TRUE, byte |-> bytes[pos + 1], pos |-> pos + 1]

\* Mutant of DeserializeSingle: whatever byte is there decodes as an element.
DeserializeAnything(datafile, peek, bytes, pos) ==
    LET r == IF peek # NoByte
                THEN [ok |-> TRUE, byte |-> peek, pos |-> pos]
                ELSE ParseWhitespace(bytes, pos)
    IN IF r.ok
          THEN [res |-> "some", val |-> Decode(datafile, r.byte), pos |-> r.pos]
          ELSE [res |-> "err", val |-> NoElem, pos |-> r.pos]

\* deserialize_single: one value is decoded from the reader, in front of
\* which `peek` is chained when it is a byte. Nothing at all is "premature
\* EOF"; a byte that starts no element is serde_json's error.
DeserializeSingle(datafile, peek, bytes, pos) ==
    LET r == IF peek # NoByte
                THEN [ok |-> TRUE, byte |-> peek, pos |-> pos]
                ELSE ParseWhitespace(bytes, pos)
    IN IF r.ok /\ r.byte \in Elements
          THEN [res |-> "some", val |-> Decode(datafile, r.byte), pos |-> r.pos]
          ELSE [res |-> "err", val |-> NoElem, pos |-> r.pos]

\* Mutant of SeparatorArm: a byte that is no separator ends the sequence.
SeparatorLenient(byte) == IF byte = "," THEN "elem" ELSE "end"

\* The match of yield_next_obj on the byte found where a separator is due.
SeparatorArm(byte) ==
    IF byte = "," THEN "elem" ELSE IF byte = "]" THEN "end" ELSE "err"

\* yield_next_obj: Ok(Some(val)), Ok(None) or Err, and the bytes consumed.
YieldNextObj(datafile, bytes, pos, at_start) ==
    LET b == ReadSkippingWs(bytes, pos)
        bad == [res |-> "err", val |-> NoElem, pos |-> b.pos]
        end == [res |-> "none", val |-> NoElem, pos |-> b.pos]
    IN IF ~b.ok THEN bad
       ELSE IF ~at_start
          THEN IF b.byte = "["
                  THEN LET peek == ReadSkippingWs(bytes, b.pos)
                       IN IF ~peek.ok
                             THEN [bad EXCEPT !.pos = peek.pos]
                          ELSE IF peek.byte = "]"
                             THEN [end EXCEPT !.pos = peek.pos]
                          ELSE DeserializeSingle(datafile, peek.byte, bytes,
                                                 peek.pos)
                  ELSE bad
          ELSE CASE SeparatorArm(b.byte) = "elem" ->
                        DeserializeSingle(datafile, NoByte, bytes, b.pos)
                 [] SeparatorArm(b.byte) = "end" -> end
                 [] OTHER -> bad

\* Position of the first occurrence of ch in str, 0 when there is none.
FirstIndex(str, ch) ==
    IF \E i \in 1..Len(str) : str[i] = ch
       THEN CHOOSE i \in 1..Len(str) :
               str[i] = ch /\ \A j \in 1..(i - 1) : str[j] # ch
       ELSE 0

\* Mutant of Find: the last occurrence is taken (rfind).
FindLast(str, ch) ==
    IF \E i \in 1..Len(str) : str[i] = ch
       THEN CHOOSE i \in 1..Len(str) :
               str[i] = ch /\ \A j \in (i + 1)..Len(str) : str[j] # ch
       ELSE 0

\* contents.find('['), counted from 1; 0 is None.
Find(str, ch) == FirstIndex(str, ch)

NoArc ==
    [pc |-> "idle", datafile |-> "none", file |-> <<>>, contents |-> <<>>,
     data |-> 0, at_start |-> FALSE, yielded |-> <<>>, out |-> <<>>,
     oldies |-> <<>>, err |-> "none"]

\* parse(), up to iter_json_array: the entry is picked from the archive, read
\* whole into `contents` (which fails on an I/O error and on text that is not
\* UTF-8), and `data` is set to the bytes from the first `[` on. `data` counts
\* the bytes of contents the reader has consumed.
ArchiveParse(datafile, found, readOk, file) ==
    /\ arc.pc = "idle"
    /\ LET a == [NoArc EXCEPT !.datafile = datafile, !.file = file]
           data_start == Find(file, "[")
       IN arc' =
            IF ~found THEN [NoArc EXCEPT !.datafile = datafile,
                                          !.pc = "failed", !.err = "pick"]
            ELSE IF ~readOk THEN [a EXCEPT !.pc = "failed", !.err = "read"]
            ELSE IF data_start = 0
               THEN [a EXCEPT !.pc = "failed", !.err = "find [",
                              !.contents = file]
            ELSE [a EXCEPT !.pc = "iter", !.contents = file,
                           !.data = data_start - 1]
    /\ UNCHANGED <<now, authVars, oauth, svcVars, load, cache, main>>

\* One round of collect(): the next item of iter_json_array goes through the
\* filter_map closure. The tweet closure moves the id of a retweet to
\* `oldies`; an error ends the collection.
IterNext ==
    /\ arc.pc = "iter"
    /\ LET r == YieldNextObj(arc.datafile, arc.contents, arc.data, arc.at_start)
           a == [arc EXCEPT !.data = r.pos, !.at_start = TRUE]
       IN arc' =
            IF r.res = "err" THEN [a EXCEPT !.pc = "failed", !.err = "parse"]
            ELSE IF r.res = "none" THEN [a EXCEPT !.pc = "done"]
            ELSE IF r.val.rt
               THEN [a EXCEPT !.yielded = Append(arc.yielded, r.val),
                              !.oldies = Append(arc.oldies, r.val.id)]
            ELSE [a EXCEPT !.yielded = Append(arc.yielded, r.val),
                           !.out = Append(arc.out, r.val.id)]
    /\ UNCHANGED <<now, authVars, oauth, svcVars, load, cache, main>>

----------------------------------------------------------------------------
(* main.rs: load *)

NoLoaded == [me |-> "none", old_rt_ids |-> <<>>, tweets |-> <<>>,
             followers |-> <<>>]

\* A dataset stored by an earlier run; its records are told from those of
\* this run by the id 0.
EarlierLoaded == [me |-> "me", old_rt_ids |-> <<>>, tweets |-> <<0>>,
                  followers |-> <<0>>]

\* cache.json: absent, the serialization of a dataset, or a file that does
\* not parse as one (what a write that failed half way leaves behind).
NoCacheFile == [exists |-> FALSE, valid |-> FALSE, data |-> NoLoaded]

CacheOf(loaded) == [exists |-> TRUE, valid |-> TRUE, data |-> loaded]

BrokenCacheFile == [exists |-> TRUE, valid |-> FALSE, data |-> NoLoaded]

CacheFiles == {NoCacheFile, CacheOf(EarlierLoaded), BrokenCacheFile}

\* cache0 remembers the cache file load() found.
NoLoad ==
    [pc |-> "start", use_cache |-> FALSE, cache0 |-> NoCacheFile,
     follower_ids |-> <<>>, tweet_ids |-> <<>>, old_rt_ids |-> <<>>,
     me |-> "none", tweets |-> <<>>, result |-> NoLoaded, err |-> "none"]

\* Mutant of Fail: the error is noted and load() goes on to its last step.
FailIgnored(l, why) == [l EXCEPT !.pc = "write", !.err = why]

\* `?`: load() returns the error with its context.
Fail(l, why) == [l EXCEPT !.pc = "failed", !.err = why]

\* Mutant of UsesCache: the cache is used whenever it exists.
UsesCacheAlways(use_cache, c) == c.exists

\* `use_cache && cache_file.exists()`
UsesCache(use_cache, c) == use_cache /\ c.exists

\* The head of load(): the cached dataset is read, parsed and returned.
LoadCheckCache(readOk) ==
    /\ load.pc = "start"
    /\ load' =
         IF UsesCache(load.use_cache, cache)
            THEN IF ~readOk THEN Fail(load, "read cache.json")
                 ELSE IF ~cache.valid THEN Fail(load, "parse cache.json")
                 ELSE [load EXCEPT !.pc = "returned", !.result = cache.data]
            ELSE [load EXCEPT !.pc = "open"]
    /\ UNCHANGED <<now, authVars, oauth, svcVars, arc, cache, main>>

\* spawn_blocking: File::open and ZipArchive::new
LoadOpenArchive(ok) ==
    /\ load.pc = "open"
    /\ load' = IF ok THEN [load EXCEPT !.pc = "follower.js"]
                     ELSE Fail(load, "open twitter archive")
    /\ UNCHANGED <<now, authVars, oauth, svcVars, arc, cache, main>>

\* archive::parse(.., "data/follower.js", ..) has returned.
LoadFollowers ==
    /\ load.pc = "follower.js"
    /\ arc.pc \in {"done", "failed"}
    /\ load' = IF arc.pc = "done"
                  THEN [load EXCEPT !.pc = "tweet.js", !.follower_ids = arc.out]
                  ELSE Fail(load, "extract follower list")
    /\ arc' = NoArc
    /\ UNCHANGED <<now, authVars, oauth, svcVars, cache, main>>

\* archive::parse(.., "data/tweet.js", ..) has returned (its error carries the
\* context "extract follower list" as well); the closure ends.
LoadTweets ==
    /\ load.pc = "tweet.js"
    /\ arc.pc \in {"done", "failed"}
    /\ load' = IF arc.pc = "done"
                  THEN [load EXCEPT !.pc = "auth", !.tweet_ids = arc.out,
                                    !.old_rt_ids = arc.oldies]
                  ELSE Fail(load, "extract follower list")
    /\ arc' = NoArc
    /\ UNCHANGED <<now, authVars, oauth, svcVars, cache, main>>

\* api::Client::new(client_id).await.context("api::Client::new")?
LoadClient ==
    /\ load.pc = "auth"
    /\ neg \in {"Authorized", "Failed"}
    /\ load' = IF neg = "Authorized" THEN [load EXCEPT !.pc = "whoami"]
                                     ELSE Fail(load, "api::Client::new")
    /\ UNCHANGED <<now, authVars, oauth, svcVars, arc, cache, main>>

\* client.whoami().await.context("whoami")?: the call has returned and its
\* response is parsed; a panic of the call ends the process.
LoadWhoami ==
    /\ load.pc = "whoami"
    /\ calls[0].st \in {"done", "panicked"}
    /\ load' = IF calls[0].st = "panicked" THEN [load EXCEPT !.pc = "panicked"]
               ELSE IF ParseOk(calls[0].result)
                  THEN [load EXCEPT !.pc = "tweets", !.me = "me"]
               ELSE Fail(load, "whoami")
    /\ calls' = [calls EXCEPT ![0] = NoCall]
    /\ UNCHANGED <<now, authVars, oauth, sentLog, recentSent, fetch, gate,
                   dispatchLog, arc, cache, main>>

\* client.tweets(tweet_ids).await.context("fetch tweets")? and
\* client.users(follower_ids).await.context("fetch follower")?: the paginated
\* fetch has returned; its locals are dropped.
LoadFetched ==
    /\ load.pc \in {"tweets", "users"}
    /\ fetch.pc \in {"done", "failed", "panicked"}
    /\ load' = IF fetch.pc = "panicked" THEN [load EXCEPT !.pc = "panicked"]
               ELSE IF fetch.pc = "failed"
                  THEN Fail(load, IF load.pc = "tweets" THEN "fetch tweets"
                                                        ELSE "fetch follower")
               ELSE IF load.pc = "tweets"
                  THEN [load EXCEPT !.pc = "users", !.tweets = fetch.all]
               ELSE [load EXCEPT
                        !.pc = "write",
                        !.result = [me |-> load.me,
                                    old_rt_ids |-> load.old_rt_ids,
                                    tweets |-> load.tweets,
                                    followers |-> fetch.all]]
    /\ fetch' = NoFetch
    /\ calls' = [c \in CallIds |-> NoCall]
    /\ UNCHANGED <<now, authVars, oauth, sentLog, recentSent, gate,
                   dispatchLog, arc, cache, main>>

\* tokio::fs::write(&cache_file, ..): the file is created or truncated and
\* then written; a write that fails may leave a file that does not parse.
LoadWriteCache(ok, left) ==
    /\ load.pc = "write"
    /\ IF ok
          THEN /\ cache' = CacheOf(load.result)
               /\ load' = [load EXCEPT !.pc = "returned"]
          ELSE /\ cache' = left
               /\ load' = Fail(load, "write cache.json")
    /\ UNCHANGED <<now, authVars, oauth, svcVars, arc, main>>

----------------------------------------------------------------------------
(* main.rs: main, behind load() *)

NoMain == [pc |-> "load", lists_of_tweets |-> {}]

\* The keys lists_of_tweets holds when the lists were filled: "old_rts" is
\* entered inside `if !old_rt_ids.is_empty()`, every other key by an
\* unconditional entry(..).or_insert_with(..).
ListsOfTweets(loaded) ==
    (IF loaded.old_rt_ids # <<>> THEN {"old_rts"} ELSE {})
    \cup {"notable_tweets", "talked_about_tweets", "over_shared_tweets",
          "top_tweets", "most_talked_about_tweets", "most_shared_tweets",
          "top_followers", "neat_followers"}

\* The keys of `groups`.
Groups ==
    {"top_tweets", "most_talked_about_tweets", "most_shared_tweets",
     "notable_tweets", "talked_about_tweets", "over_shared_tweets", "old_rts"}

\* main() with the dataset load() returned: the lists are filled, then
\* assert!(lists_of_tweets.contains_key(id)) runs for every key of groups;
\* a failed assertion is a panic, otherwise the page is generated.
MainReport ==
    /\ load.pc = "returned"
    /\ main.pc = "load"
    /\ LET lists == ListsOfTweets(load.result) IN
       main' = [pc |-> IF \A id \in Groups : id \in lists THEN "page"
                                                          ELSE "panicked",
                lists_of_tweets |-> lists]
    /\ UNCHANGED <<now, authVars, oauth, svcVars, arc, load, cache>>

----------------------------------------------------------------------------
(* Specifications *)

\* The state of a process that has not yet started the negotiation and has
\* sent nothing.
FreshProcess ==
    /\ now = 0
    /\ neg = "Idle"
    /\ csrf_token = "none"
    /\ failReason = "none"
    /\ slot = FALSE
    /\ rx = NoRx
    /\ serverUp = FALSE
    /\ downCount = 0
    /\ handlers = [h \in H |-> NoHandler]
    /\ fired = <<>>
    /\ delivered = <<>>
    /\ received = NoPayload
    /\ tokenReqs = 0
    /\ oauth = NoToken
    /\ calls = [c \in CallIds |-> NoCall]
    /\ sentLog = <<>>
    /\ recentSent = <<>>
    /\ fetch = NoFetch
    /\ gate = GateNew(0)
    /\ dispatchLog = <<>>
    /\ main = NoMain

\* RawClient::new is entered: load() has extracted the archive.
InitAuth ==
    /\ FreshProcess
    /\ arc = NoArc
    /\ load = [NoLoad EXCEPT !.pc = "auth"]
    /\ cache = NoCacheFile

NextAuth ==
    \/ RedirectServer
    \/ \E s \in CsrfTokens, opened \in BOOLEAN : AuthorizeUrl(s, opened)
    \/ \E h \in H, q \in Queries : CallbackRequest(h, q)
    \/ \E h \in H : CallbackTake(h)
    \/ \E h \in H : CallbackSend(h)
    \/ \E h \in H : CallbackShut(h)
    \/ ListenerFails
    \/ AwaitRedirect
    \/ AwaitRedirectLost
    \/ \E ok \in BOOLEAN, t \in Tokens : TokenResponse(ok, t)

SpecAuth == InitAuth /\ [][NextAuth]_vars

\* The state in which Client::new has returned Ok: the negotiation is over,
\* the one callback was answered and the listener was shut down.
InitClient ==
    /\ now = 0
    /\ neg = "Authorized"
    /\ csrf_token = "s1"
    /\ failReason = "none"
    /\ slot = FALSE
    /\ rx = NoRx
    /\ serverUp = FALSE
    /\ downCount = 1
    /\ received = [tag |-> "Authorized", code |-> "c1", kind |-> "none", state |-> "s1"]
    /\ handlers = [h \in H |-> IF h = 1 THEN [pc |-> "replied", payload |-> received,
                                               query |-> QueryOf(received)]
                                        ELSE NoHandler]
    /\ fired = <<1>>
    /\ delivered = <<received>>
    /\ tokenReqs = 1
    /\ oauth \in Tokens
    /\ calls = [c \in CallIds |-> NoCall]
    /\ sentLog = <<>>
    /\ recentSent = <<>>
    /\ fetch = NoFetch
    /\ gate = GateNew(0)
    /\ dispatchLog = <<>>
    /\ main = NoMain
    /\ arc = NoArc
    /\ load = [NoLoad EXCEPT !.pc = "whoami"]
    /\ cache = NoCacheFile

NextCall ==
    \/ \E cl \in BOOLEAN : Whoami(cl)
    \/ \E o \in Outcomes : WhoamiRespond(o)
    \/ Wake(0)
    \/ Tick

SpecCall == InitClient /\ [][NextCall]_vars

NextFetch ==
    \/ \E ep \in Endpoints, input \in Inputs, P \in 1..MaxPageSize :
          StartFetch(ep, input, P)
    \/ NextPage
    \/ SelectReady
    \/ Dispatch
    \/ PollFuts
    \/ \E c \in CallIds \ {0}, o \in BatchOutcomes : BatchRespond(c, o)
    \/ \E c \in CallIds \ {0} : Wake(c)
    \/ DrainDone
    \/ Tick

SpecFetch == InitClient /\ [][NextFetch]_vars

NextGate ==
    \/ \E ep \in Endpoints, input \in GateInputs : StartFetch(ep, input, 1)
    \/ NextPage
    \/ SelectReady
    \/ Dispatch
    \/ PollFuts
    \/ \E c \in CallIds \ {0}, o \in GateOutcomes : BatchRespond(c, o)
    \/ \E c \in CallIds \ {0} : Wake(c)
    \/ DrainDone
    \/ Tick

SpecGate == InitClient /\ [][NextGate]_vars

\* The entries archive::parse is tried on: every text of up to MaxEntryLen
\* characters, alone and behind one character of declaration.
Texts(n) == UNION {[1..k -> Chars] : k \in 0..n}

Entries == {p \o t : p \in {<<>>, <<"x">>}, t \in Texts(MaxEntryLen)}

\* A well-formed array of the elements es, without whitespace.
RECURSIVE Joined(_)
Joined(es) ==
    IF es = <<>> THEN <<>>
    ELSE IF Len(es) = 1 THEN es
    ELSE <<Head(es), ",">> \o Joined(Tail(es))

\* The arrays of data/tweet.js the routing of retweets is tried on: up to
\* MaxTweets tweets, retweets and others in any order.
TweetEntries ==
    {<<"[">> \o Joined(es) \o <<"]">> :
        es \in UNION {[1..k -> Elements] : k \in 0..MaxTweets}}

\* One call of archive::parse, on either entry of the archive.
InitArchive ==
    /\ FreshProcess
    /\ arc = NoArc
    /\ load = [NoLoad EXCEPT !.pc = "follower.js"]
    /\ cache = NoCacheFile

NextArchive ==
    \/ /\ arc.pc = "idle"
       /\ \E datafile \in {"follower", "tweet"}, found \in BOOLEAN,
             readOk \in BOOLEAN, file \in Entries :
             ArchiveParse(datafile, found, readOk, file)
    \/ /\ arc.pc = "idle"
       /\ \E file \in TweetEntries : ArchiveParse("tweet", TRUE, TRUE, file)
    \/ IterNext

SpecArchive == InitArchive /\ [][NextArchive]_vars

\* load() from its first line: the flag and the cache file are as the run
\* finds them.
InitLoad ==
    /\ FreshProcess
    /\ arc = NoArc
    /\ cache \in CacheFiles
    /\ \E u \in BOOLEAN : load = [NoLoad EXCEPT !.use_cache = u, !.cache0 = cache]

\* The archive entries, redirects and responses of the runs of load().
LoadEntries == {<<"x">>, <<"x", "[", "a", ",", "b", "]">>}

\* The entries data/tweet.js is tried with: those, and an array without a
\* retweet.
LoadTweetEntries == LoadEntries \cup {<<"[", "a", "]">>}

LoadRedirects ==
    {p \in Redirect : p.tag = "Authorized" \/ (p.kind = "access_denied" /\ p.state = "s1")}

LoadOutcomes ==
    {o \in GateOutcomes : o.reset \in {-1, LastResetSec}} \cup {TransportError}

NextLoad ==
    \/ \E readOk \in BOOLEAN : LoadCheckCache(readOk)
    \/ \E ok \in BOOLEAN : LoadOpenArchive(ok)
    \/ /\ load.pc = "follower.js"
       /\ \E found \in BOOLEAN, readOk \in BOOLEAN, file \in LoadEntries :
             ArchiveParse("follower", found, readOk, file)
    \/ /\ load.pc = "tweet.js"
       /\ \E found \in BOOLEAN, readOk \in BOOLEAN, file \in LoadTweetEntries :
             ArchiveParse("tweet", found, readOk, file)
    \/ IterNext
    \/ LoadFollowers
    \/ LoadTweets
    \/ load.pc = "auth" /\ RedirectServer
    \/ \E opened \in BOOLEAN : AuthorizeUrl("s1", opened)
    \/ \E p \in LoadRedirects : CallbackArrive(1, p)
    \/ CallbackTake(1)
    \/ CallbackSend(1)
    \/ CallbackShut(1)
    \/ AwaitRedirect
    \/ \E ok \in BOOLEAN, t \in Tokens : TokenResponse(ok, t)
    \/ LoadClient
    \/ load.pc = "whoami" /\ Whoami(TRUE)
    \/ \E o \in LoadOutcomes : WhoamiRespond(o)
    \/ \E c \in CallIds : Wake(c)
    \/ LoadWhoami
    \/ load.pc = "tweets" /\ StartFetch("tweets", load.tweet_ids, 1)
    \/ load.pc = "users" /\ StartFetch("users", load.follower_ids, 1)
    \/ NextPage
    \/ SelectReady
    \/ Dispatch
    \/ PollFuts
    \/ \E c \in CallIds \ {0}, o \in LoadOutcomes : BatchRespond(c, o)
    \/ DrainDone
    \/ LoadFetched
    \/ \E ok \in BOOLEAN, left \in {cache, BrokenCacheFile} :
          LoadWriteCache(ok, left)
    \/ load.pc \in {"whoami", "tweets", "users"} /\ Tick
    \/ MainReport

SpecLoad == InitLoad /\ [][NextLoad]_vars

\* One call through the request service, with a clock that advances, a
\* runtime that polls a future whose sleep has elapsed, and a remote that
\* answers, and that answers with something other than a 429 again and again
\* as long as requests keep reaching it.
LiveCall ==
    /\ SpecCall
    /\ WF_vars(Tick)
    /\ WF_vars(Wake(0))
    /\ SF_vars(\E o \in Outcomes \ TooManyRequests : WhoamiRespond(o))

\* Inputs of the fetches whose termination is checked: k identifiers, all 1,
\* up to one more than the gate admits in a window.
LiveInputs == {[i \in 1..k |-> 1] : k \in 0..(RateNum + 1)}

\* The sleep of a limited gate (tokio::time::Sleep inside RateLimit) runs to
\* its deadline also when that deadline lies beyond MaxTime: the clock
\* advances while the fetch is suspended on svc.ready().
GateTimerElapses ==
    /\ now >= MaxTime
    /\ fetch.pc = "select"
    /\ gate.state = "Limited"
    /\ now < gate.until
    /\ now' = now + 1
    /\ recentSent' = Recent(recentSent, now + 1)
    /\ dispatchLog' = Recent(dispatchLog, now + 1)
    /\ UNCHANGED <<pipeVars, authVars, oauth, calls, sentLog, fetch, gate>>

NextLiveFetch ==
    \/ \E ep \in Endpoints, input \in LiveInputs : StartFetch(ep, input, 1)
    \/ NextPage
    \/ SelectReady
    \/ Dispatch
    \/ PollFuts
    \/ \E c \in CallIds \ {0}, o \in GateOutcomes : BatchRespond(c, o)
    \/ \E c \in CallIds \ {0} : Wake(c)
    \/ DrainDone
    \/ Tick
    \/ GateTimerElapses

\* One paginated fetch on a runtime that keeps polling the task of the fetch
\* and the futures it holds, with a clock that advances, timers that fire,
\* and a remote that answers every request it receives and answers with
\* something other than a 429 again and again.
LiveFetch ==
    /\ InitClient
    /\ [][NextLiveFetch]_vars
    /\ WF_vars(Tick)
    /\ WF_vars(GateTimerElapses)
    /\ WF_vars(NextPage)
    /\ WF_vars(SelectReady)
    /\ WF_vars(Dispatch)
    /\ WF_vars(PollFuts)
    /\ WF_vars(DrainDone)
    /\ \A c \in CallIds \ {0} : WF_vars(Wake(c))
    /\ \A c \in CallIds \ {0} :
          SF_vars(\E o \in GateOutcomes \ TooManyRequests : BatchRespond(c, o))

----------------------------------------------------------------------------
(* Properties of the authorization negotiation (SpecAuth) *)

\* The payload of the callback whose handler was the first to take the
\* single-use state.
FirstFired == handlers[fired[1]].payload

\* C8: a redirect whose state differs from the CSRF token generated for this
\* attempt ends the negotiation in failure with no request sent to the token
\* endpoint; a request is sent to the token endpoint only for a success
\* payload that carries exactly the generated token.
C8_MismatchNeverExchanged ==
    /\ (received # NoPayload /\ received.state # csrf_token)
          => (neg = "Failed" /\ tokenReqs = 0 /\ oauth = NoToken)
    /\ tokenReqs > 0
          => (received.tag = "Authorized" /\ received.state = csrf_token)

C8_Witness ==
    /\ received.tag = "Authorized"
    /\ received.state # csrf_token
    /\ neg = "Failed"

\* C9: every payload the negotiation receives, success or error, whose state
\* differs from the generated CSRF token makes the negotiation fail with the
\* CSRF-mismatch reason.
C9_EveryPayloadCsrfChecked ==
    (received # NoPayload /\ received.state # csrf_token)
        => (neg = "Failed" /\ failReason = "bad csrf token")

\* C10: whatever callbacks arrive and however their handlers interleave, at
\* most one payload is handed to the negotiation, it is the payload of the
\* first handler to run (to take the single-use state), nothing replaces it
\* in the channel or at the receiver, and once that handler has sent while
\* the negotiation was waiting exactly one payload was delivered.
C10_FirstCallbackWins ==
    /\ Len(fired) <= 1
    /\ Len(delivered) <= 1
    /\ delivered # <<>> => (fired # <<>> /\ delivered[1] = FirstFired)
    /\ rx.val # NoPayload => (fired # <<>> /\ rx.val = FirstFired)
    /\ received # NoPayload => (fired # <<>> /\ received = FirstFired)
    /\ (/\ fired # <<>>
        /\ handlers[fired[1]].pc \in {"shut", "replied"}
        /\ failReason # "forward to Twitter for authorization")
          => delivered = <<FirstFired>>

C10_Witness ==
    /\ fired = <<2>>
    /\ handlers[2].pc = "replied"
    /\ handlers[1].pc = "panicked"
    /\ handlers[1].payload # handlers[2].payload
    /\ received = handlers[2].payload

----------------------------------------------------------------------------
(* Properties of the request service (SpecCall, LiveCall) *)

\* The requests sent so far on behalf of call c.
Sends(c) == Len(SelectSeq(sentLog, LAMBDA e : e.call = c))

Active(k) == k.st \in {"inflight", "sleeping"}

\* C4: after a 429 whose reset instant lies `wait` ahead, a wait of more than
\* one second (one and a half seconds included) makes the service sleep, and
\* the request is reissued no earlier than `wait` after the 429 was handled;
\* a wait of at most one second, or a reset instant in the past, makes it
\* reissue at once without sleeping.
C4_SleepsWhenWaitOverOneSecond ==
    \A c \in CallIds :
        LET k == calls[c] IN
        (Active(k) /\ k.retries > 0) =>
            /\ k.wait429 > TicksPerSec =>
                  (k.slept /\ (k.st = "inflight" => now >= k.t429 + k.wait429))
            /\ k.wait429 <= TicksPerSec => (~k.slept /\ k.st = "inflight")

\* C5: a request is reissued, the service sleeps, and the reset header is
\* read (and missed), only after a response that arrived with status 429; a
\* transport failure or any other status is handed to the caller as it is,
\* after exactly one send when no 429 came before it.
C5_RetryOnlyOn429 ==
    \A c \in CallIds :
        LET k == calls[c] IN
        /\ ((Active(k) \/ k.st = "panicked") /\ k.last # NoOutcome)
              => (k.last.kind = "resp" /\ k.last.status = 429)
        /\ k.st = "inflight" => Sends(c) = k.retries + 1
        /\ k.st = "sleeping" => (Sends(c) = k.retries /\ k.retries > 0)
        /\ k.st = "done" => (Sends(c) = k.retries + 1 /\ k.result = k.last)
        /\ (k.st = "done" /\ k.retries = 0) => (Sends(c) = 1 /\ ~k.slept)

C5_Witness ==
    /\ calls[0].st = "done"
    /\ calls[0].result.status = 500
    /\ Sends(0) = 1

\* C6: a call made with a request that can be cloned never returns a 429 to
\* its caller: it returns the outcome that ended the run of 429 responses,
\* and every request sent for the call has the URL of the first attempt and
\* the credential of the client.
C6_RateLimitAbsorbed ==
    \A c \in CallIds :
        LET k == calls[c] IN
        /\ (k.st = "done" /\ k.cloneable)
              => (k.result.status # 429 /\ k.result = k.last)
        /\ \A j \in 1..Len(sentLog) :
              sentLog[j].call = c
                  => (sentLog[j].url = k.url /\ sentLog[j].bearer = oauth)

C6_Witness ==
    /\ calls[0].st = "done"
    /\ calls[0].cloneable
    /\ calls[0].retries = Max429
    /\ Sends(0) = Max429 + 1
    /\ calls[0].result.status = 200

\* C7: with time advancing and a remote that eventually answers with
\* something other than a 429, a call that is waiting for a response or
\* sleeping until a reset instant eventually ends.
C7_CallTerminates ==
    Active(calls[0]) ~> (calls[0].st \in {"done", "panicked"})

C7_Witness ==
    /\ calls[0].st = "done"
    /\ calls[0].slept
    /\ calls[0].retries > 0

----------------------------------------------------------------------------
(* Properties of the paginated fetch (SpecFetch, SpecGate) *)

\* C1: no more than RateNum calls go through the gate within any window of
\* length Per; dispatchLog holds the calls of the window that ends now.
C1_BudgetPerWindow == Len(dispatchLog) <= RateNum

Ceil(n, P) == (n + P - 1) \div P

\* The identifiers batch i (counted from 0) has to hold.
Slice(i) ==
    SubSeq(fetch.ids, i * fetch.P + 1, Min((i + 1) * fetch.P, Len(fetch.ids)))

\* str is batch joined by single separators, with none leading or trailing.
WellJoined(str, batch) ==
    /\ batch # <<>>
    /\ Len(batch) <= fetch.P
    /\ Len(str) = 2 * Len(batch) - 1
    /\ \A j \in 1..Len(str) :
          IF j % 2 = 1 THEN str[j] = batch[(j + 1) \div 2] ELSE str[j] = Comma

\* C2: the fetcher builds ceil(N/P) batches, none when N = 0; batch i is the
\* input at indices [i*P, min((i+1)*P, N)), in order, so it is neither empty
\* nor longer than P; and its id list is those ids joined by single commas.
C2_Batches ==
    LET n == Len(fetch.ids)
        building == fetch.pc \in {"select", "call"}
    IN /\ fetch.page + (IF building THEN 1 ELSE 0) <= Ceil(n, fetch.P)
       /\ fetch.pc \in {"drain", "done"} => fetch.page = Ceil(n, fetch.P)
       /\ \A i \in 0..(fetch.page - 1) :
             WellJoined(calls[i + 1].url.ids, Slice(i))
       /\ building => WellJoined(fetch.req.ids, Slice(fetch.page))

C2_Witness ==
    /\ fetch.pc = "done"
    /\ Len(fetch.ids) = 3
    /\ fetch.P = 2
    /\ fetch.page = 2

Count(seq, x) == Len(SelectSeq(seq, LAMBDA y : y = x))

\* The identifiers of all requests sent, in the order sent.
RECURSIVE Requested(_)
Requested(log) ==
    IF log = <<>> THEN <<>>
    ELSE SplitIds(Head(log).url.ids) \o Requested(Tail(log))

\* C3: when a fetch has returned Ok and no request was answered 429, the
\* identifiers over all requests sent are the input as a multiset, one
\* request was sent per batch, and if every response held one record per
\* requested id the merged output has N elements.
C3_EachIdRequestedOnce ==
    (fetch.pc = "done" /\ TotalRetries = 0) =>
        /\ Len(sentLog) = Ceil(Len(fetch.ids), fetch.P)
        /\ \A x \in IdSet : Count(Requested(sentLog), x) = Count(fetch.ids, x)
        /\ (\A c \in 1..fetch.page : calls[c].result.body = "data")
              => Len(fetch.all) = Len(fetch.ids)

C3_Witness ==
    /\ fetch.pc = "done"
    /\ TotalRetries = 0
    /\ Len(fetch.ids) = 3
    /\ fetch.ids[1] = fetch.ids[2]
    /\ fetch.P = 2
    /\ \A c \in 1..fetch.page : calls[c].result.body = "data"
    /\ Len(fetch.all) = 3

----------------------------------------------------------------------------
(* Properties of a run of load() (SpecLoad) *)

\* C11: the token endpoint is asked at most once; no API request is sent
\* before the negotiation is Authorized; every request sent, reissues after a
\* 429 and concurrent batches included, carries the credential the client
\* holds; and the credential is set by the answer of the token endpoint and
\* by nothing else, so it never changes once acquired.
C11_CredentialOnceAndReused ==
    /\ [](/\ tokenReqs <= 1
          /\ sentLog # <<>> => (neg = "Authorized" /\ oauth \in Tokens)
          /\ \A j \in 1..Len(sentLog) : sentLog[j].bearer = oauth)
    /\ [][oauth' # oauth
            => (oauth = NoToken /\ neg = "Exchanging" /\ neg' = "Authorized")]_vars

C11_Witness ==
    /\ load.pc = "users"
    /\ calls[1].st = "inflight"
    /\ calls[2].st = "inflight"
    /\ calls[1].retries = 1
    /\ Len(sentLog) >= 5
    /\ \E j \in 1..Len(sentLog) : sentLog[j].url = MeUrl
    /\ \A j \in 1..Len(sentLog) : sentLog[j].bearer = oauth

----------------------------------------------------------------------------
(* Further properties of the paginated fetch (SpecFetch, SpecGate) *)

\* A transport failure, or a body that is no envelope.
BadBatch(o) == o.kind = "err" \/ o.body \notin {"data", "partial"}

\* C12: a batch that ends in a transport failure or in a body that does not
\* decode, during the wait for admission or during the final drain, makes the
\* fetch return an error: it never returns Ok after it, the batches still in
\* flight are dropped, and from then on nothing is dispatched or sent.
C12_BatchFailureAbortsFetch ==
    /\ [](/\ \A c \in CallIds \ {0} :
                (calls[c].st = "done" /\ BadBatch(calls[c].result))
                    => (fetch.pc = "failed" /\ fetch.futs = {})
          /\ fetch.pc = "done"
                => \A c \in 1..fetch.page :
                      calls[c].st = "done" /\ ~BadBatch(calls[c].result)
          /\ fetch.pc = "failed"
                => \A c \in CallIds \ {0} :
                      calls[c].st \in {"none", "done", "dropped"})
    /\ [][fetch.pc = "failed"
            => (fetch' = fetch /\ calls' = calls /\ sentLog' = sentLog
                /\ gate' = gate)]_vars

C12_Witness ==
    /\ fetch.pc = "failed"
    /\ fetch.all # <<>>
    /\ fetch.req # NoUrl
    /\ gate.state = "Limited"
    /\ calls[1].st = "done"
    /\ calls[2].st = "done"
    /\ calls[2].result = TransportError

\* C13: whenever a batch completes with an envelope, during the wait for
\* admission or during the drain, its data array is appended whole and in its
\* order at the end of the output, and nothing else changes the output; so
\* the output of a fetch that returns Ok is the concatenation of the data
\* arrays in the order of completion, each of them once.
C13_MergedInCompletionOrder ==
    [][\A c \in CallIds \ {0} :
          LET completes == calls[c].st = "inflight" /\ calls'[c].st = "done"
                           /\ ~BadBatch(calls'[c].result)
              others == \E d \in CallIds \ {0, c} :
                           calls[d].st = "inflight" /\ calls'[d].st = "done"
          IN /\ completes
                  => /\ fetch'.all =
                          fetch.all \o BodyData(calls[c].url, calls'[c].result.body)
                     /\ ~others
             /\ (fetch.pc \in {"page", "select", "call", "drain"}
                 /\ \A d \in CallIds \ {0} :
                       ~(calls[d].st = "inflight" /\ calls'[d].st = "done"))
                  => fetch'.all = fetch.all]_vars

C13_Witness ==
    /\ fetch.pc = "done"
    /\ fetch.ids = <<1, 2, 2>>
    /\ fetch.P = 1
    /\ fetch.all = <<2, 1, 2>>

\* C20: once the gate was seen ready for a batch, nothing happens before the
\* batch is dispatched but the passing of time: no future of a batch is
\* polled, nothing is sent, the gate is left as it is; so the gate is ready,
\* never limited, when the call is made through it, and the call is counted.
C20_ReadyThenDispatch ==
    /\ [](fetch.pc = "call" => gate.state = "Ready")
    /\ [][fetch.pc = "call"
            => \/ /\ fetch'.pc = "call"
                  /\ UNCHANGED <<fetch, gate, calls, sentLog>>
               \/ /\ fetch'.pc = "page"
                  /\ gate.state = "Ready"
                  /\ gate' = GateCall(gate, now)
                  /\ sentLog' = sentLog
                  /\ \A c \in CallIds :
                        calls[c].st # "none" => calls'[c] = calls[c]]_vars

C20_Witness ==
    /\ fetch.pc = "call"
    /\ fetch.page >= RateNum
    /\ gate.state = "Ready"
    /\ gate.rem = RateNum
    /\ \E c \in CallIds : calls[c].st = "inflight"

----------------------------------------------------------------------------
(* Properties of the archive extractor (SpecArchive) *)

\* The entry was picked from the archive and read as text.
WasRead == arc.pc \in {"iter", "done", "failed"} /\ arc.err \notin {"pick", "read"}

\* Position of the `]` that closes the array that starts at the first `[`
\* of the entry: the first `]` behind it; 0 when there is none.
ClosePos(entry) ==
    LET open == FirstIndex(entry, "[")
        close == FirstIndex(SubSeq(entry, open + 1, Len(entry)), "]")
    IN IF open = 0 \/ close = 0 THEN 0 ELSE open + close

\* The tokens between the brackets of the array, whitespace left out.
ArrayTokens(entry) ==
    SelectSeq(SubSeq(entry, FirstIndex(entry, "[") + 1, ClosePos(entry) - 1),
              LAMBDA ch : ch # " ")

\* A declaration without `[`, then `[`, elements separated by single commas,
\* and `]`, with whitespace anywhere between the tokens; whatever follows
\* the `]` is not looked at.
WellFormed(entry) ==
    /\ ClosePos(entry) > 0
    /\ LET toks == ArrayTokens(entry) IN
          /\ toks # <<>> => Len(toks) % 2 = 1
          /\ \A m \in 1..Len(toks) :
                IF m % 2 = 1 THEN toks[m] \in Elements ELSE toks[m] = ","

\* The elements of a well-formed entry, decoded, in the order of the text.
ArrayElements(datafile, entry) ==
    LET toks == ArrayTokens(entry) IN
    [m \in 1..((Len(toks) + 1) \div 2) |-> Decode(datafile, toks[2 * m - 1])]

IsPrefixOf(p, q) == Len(p) <= Len(q) /\ p = SubSeq(q, 1, Len(p))

\* C14: for a well-formed entry (a declaration free of `[`, then an array of
\* k elements with whitespace anywhere between its tokens) that was read as
\* text, the extractor does not fail, yields the elements of the array in
\* their order and no others, and ends after exactly k of them; with k = 0
\* it ends with an empty collection.
C14_YieldsArrayElements ==
    (WasRead /\ WellFormed(arc.file)) =>
        LET want == ArrayElements(arc.datafile, arc.file) IN
        /\ arc.pc # "failed"
        /\ IsPrefixOf(arc.yielded, want)
        /\ arc.pc = "done" => arc.yielded = want
        /\ (arc.pc = "done" /\ want = <<>>)
              => (arc.out = <<>> /\ arc.oldies = <<>>)

C14_Witness ==
    /\ arc.pc = "done"
    /\ arc.file = <<"x", "[", "b", ",", "a", "]">>
    /\ arc.yielded = <<Decode(arc.datafile, "b"), Decode(arc.datafile, "a")>>

\* The ids of the elements for which the closure of `datafile` returns Some,
\* and those it puts aside.
Kept(elems) == SelectSeq(elems, LAMBDA e : ~e.rt)

PutAside(elems) == SelectSeq(elems, LAMBDA e : e.rt)

Ids(elems) == [m \in 1..Len(elems) |-> elems[m].id]

\* C15: an entry without `[` that was read as text makes parse fail at the
\* search for `[`, before any element is yielded; and for a well-formed
\* entry the reader never consumes a byte behind the closing `]`, and the
\* collections parse ends with are those of the array alone, whatever the
\* bytes behind the `]` are.
C15_NoBracketFailsTailIgnored ==
    /\ (WasRead /\ FirstIndex(arc.file, "[") = 0)
          => (arc.pc = "failed" /\ arc.err = "find [" /\ arc.yielded = <<>>)
    /\ (WasRead /\ WellFormed(arc.file))
          => /\ arc.data <= ClosePos(arc.file)
             /\ arc.pc = "done"
                   => LET want == ArrayElements(arc.datafile, arc.file) IN
                      /\ arc.data = ClosePos(arc.file)
                      /\ arc.out = Ids(Kept(want))
                      /\ arc.oldies = Ids(PutAside(want))

C15_Witness ==
    /\ arc.pc = "done"
    /\ arc.datafile = "tweet"
    /\ arc.file = <<"[", "b", "]", "x", "[">>
    /\ arc.oldies = <<2>>
    /\ arc.data = 3

\* The first byte behind the `pos` consumed ones that is no whitespace.
NextNonWs(bytes, pos) ==
    LET idx == {i \in (pos + 1)..Len(bytes) : bytes[i] # " "}
    IN IF idx = {} THEN NoByte
       ELSE bytes[CHOOSE i \in idx : \A j \in idx : i <= j]

\* C16: once an element was yielded, the next byte that is no whitespace
\* decides: `]` ends the sequence, `,` announces an element (the extraction
\* goes on or fails on what follows), and any other byte, or the end of the
\* input, makes the extraction fail with no further element yielded.
C16_SeparatorOrFail ==
    [][(arc.pc = "iter" /\ arc.yielded # <<>>)
         => LET b == NextNonWs(arc.contents, arc.data) IN
            /\ b = "]" => (arc'.pc = "done" /\ arc'.yielded = arc.yielded)
            /\ b = "," => arc'.pc \in {"iter", "failed"}
            /\ b \notin {"]", ","}
                  => /\ arc'.pc = "failed"
                     /\ arc'.err = "parse"
                     /\ arc'.yielded = arc.yielded]_vars

C16_Witness ==
    /\ arc.pc = "failed"
    /\ arc.err = "parse"
    /\ arc.file = <<"[", "a", " ", "x", "]">>
    /\ arc.yielded # <<>>

\* C17: when an element has been decoded and handed to the closure, no byte
\* of the entry behind that element has been read into memory.
C17_NothingReadAhead ==
    (arc.pc = "iter" /\ arc.yielded # <<>>) => Len(arc.contents) <= arc.data

----------------------------------------------------------------------------
(* Properties of load() and its cache (SpecLoad) *)

\* load() took the branch that returns the cache.
CacheHit == load.use_cache /\ load.cache0.exists

\* C18: cache.json differs from what the run found only when the write at
\* the end of load() was reached, that is after the extraction, the
\* negotiation, whoami and both fetches have succeeded, and then it holds the
\* dataset just loaded unless the write itself failed; a run that failed or
\* panicked at an earlier stage, or has not reached the write, leaves the
\* file as it was.
C18_CacheWrittenOnlyAfterSuccess ==
    /\ cache # load.cache0
          => /\ load.pc \in {"returned", "failed"}
             /\ load.err \in {"none", "write cache.json"}
             /\ ~CacheHit
             /\ neg = "Authorized"
             /\ load.result = [me |-> "me", old_rt_ids |-> load.old_rt_ids,
                               tweets |-> load.tweets,
                               followers |-> load.result.followers]
             /\ load.pc = "returned" => cache = CacheOf(load.result)
    /\ (load.pc \in {"failed", "panicked"} /\ load.err # "write cache.json")
          => cache = load.cache0
    /\ load.pc \notin {"returned", "failed", "panicked"} => cache = load.cache0

C18_Witness ==
    /\ load.pc = "failed"
    /\ load.err = "fetch follower"
    /\ ~load.use_cache
    /\ load.tweets # <<>>
    /\ load.cache0 = CacheOf(EarlierLoaded)
    /\ cache = load.cache0

\* C19: with a cache file present and without --fresh, load() reads no
\* archive entry, starts no negotiation, sends no request and leaves the file
\* alone, and it returns the dataset of the file (when the file cannot be
\* read or does not parse, that error, and still nothing else); with --fresh
\* or without a cache file, load() returns only after the whole pipeline has
\* run, and the file then holds the dataset it returns.
C19_CacheUsedUnlessFresh ==
    /\ (load.pc # "start" /\ CacheHit)
          => /\ load.pc \in {"returned", "failed"}
             /\ arc = NoArc
             /\ neg = "Idle"
             /\ tokenReqs = 0
             /\ sentLog = <<>>
             /\ cache = load.cache0
             /\ load.pc = "returned" => load.result = load.cache0.data
             /\ load.pc = "failed"
                   => \/ load.err = "read cache.json"
                      \/ load.err = "parse cache.json" /\ ~load.cache0.valid
    /\ (load.pc = "returned" /\ ~CacheHit)
          => /\ neg = "Authorized"
             /\ \E j \in 1..Len(sentLog) : sentLog[j].url = MeUrl
             /\ load.result = [me |-> "me", old_rt_ids |-> load.old_rt_ids,
                               tweets |-> load.tweets,
                               followers |-> load.result.followers]
             /\ Len(load.result.followers) = Len(load.follower_ids)
             /\ cache = CacheOf(load.result)

C19_Witness ==
    /\ load.pc = "returned"
    /\ load.use_cache
    /\ load.cache0 = CacheOf(EarlierLoaded)
    /\ load.result = EarlierLoaded
    /\ neg = "Idle"
    /\ sentLog = <<>>

----------------------------------------------------------------------------
(* Progress of the paginated fetch (LiveFetch) *)

\* The fetch has returned Ok(all) after dispatching every batch and merging
\* the chunk of each.
FetchReturned ==
    /\ fetch.pc = "done"
    /\ fetch.page = Ceil(Len(fetch.ids), fetch.P)
    /\ fetch.futs = {}
    /\ Len(fetch.all) = Len(fetch.ids)

\* C21: the paginated fetch cannot deadlock. On a runtime that polls it, with
\* a gate whose window timer fires and a remote that completes every request
\* dispatched to it, a fetch that was started eventually returns, having
\* dispatched every batch; and while it is suspended waiting for admission,
\* a batch in flight can still complete and be merged, and only then.
C21_FetchReturns ==
    /\ (fetch.pc \notin {"idle", "done"}) ~> FetchReturned
    /\ [][fetch'.all # fetch.all => fetch.pc \in {"select", "drain"}]_vars

\* A chunk is merged while the gate is closed and a batch waits for admission.
C21_Witness ==
    /\ fetch.pc = "select"
    /\ gate.state = "Limited"
    /\ now < gate.until
    /\ fetch.all # <<>>
    /\ fetch.req # NoUrl

----------------------------------------------------------------------------
(* Requests sent per window (SpecGate) *)

\* C22: counting every request handed to the HTTP client, first attempts and
\* reissues after a 429 alike, no more than RateNum are sent within any
\* interval of length Per. recentSent holds the instants of the requests
\* sent less than Per before now.
C22_SendsPerWindow == Len(recentSent) <= RateNum

----------------------------------------------------------------------------
(* Order of the negotiation and the single-use listener (SpecAuth) *)

\* The steps RawClient::new may take from one position to the next.
NegotiationSteps ==
    {<<"Idle", "ServerListening">>,
     <<"ServerListening", "AwaitingRedirect">>,
     <<"ServerListening", "Failed">>,
     <<"AwaitingRedirect", "Exchanging">>,
     <<"AwaitingRedirect", "Failed">>,
     <<"Exchanging", "Authorized">>,
     <<"Exchanging", "Failed">>}

\* C23: the negotiation moves through its positions in order. The listener
\* is bound (and holds the single-use state) as ServerListening is entered,
\* and the authorize URL with its CSRF token is made only from there; the
\* one request to the token endpoint is sent only as a delivered success
\* payload with the generated state is received; the credential is set only
\* by a successful exchange; an error payload, a state mismatch and a lost
\* completion signal each end in Failed, as does a failed exchange; and
\* from Authorized or Failed nothing of the negotiation changes any more.
C23_NegotiationInOrder ==
    /\ [][/\ neg' # neg => <<neg, neg'>> \in NegotiationSteps
          /\ (neg' # neg /\ neg' = "ServerListening")
                => (slot' /\ serverUp' /\ rx'.alive)
          /\ csrf_token' # csrf_token => neg = "ServerListening"
          /\ (neg' # neg /\ neg' = "Exchanging") => tokenReqs' = tokenReqs + 1
          /\ tokenReqs' # tokenReqs
                => /\ tokenReqs = 0 /\ tokenReqs' = 1
                   /\ neg = "AwaitingRedirect" /\ neg' = "Exchanging"
                   /\ received' \in RedirectAuthorized
                   /\ received'.state = csrf_token
                   /\ delivered = <<received'>>
          /\ (/\ neg = "AwaitingRedirect" /\ neg' # neg
              /\ \/ received'.tag = "Error"
                 \/ received'.state # csrf_token
                 \/ received' = NoPayload)
                => (neg' = "Failed" /\ tokenReqs' = tokenReqs)
          /\ oauth' # oauth
                => (neg = "Exchanging" /\ neg' = "Authorized" /\ oauth' \in Tokens)
          /\ (neg = "Exchanging" /\ neg' # neg /\ oauth' = oauth) => neg' = "Failed"
          /\ neg \in {"Authorized", "Failed"}
                => UNCHANGED <<neg, csrf_token, failReason, received, tokenReqs,
                               oauth>>]_vars
    /\ [](neg = "Authorized" => (oauth \in Tokens /\ tokenReqs = 1))
    /\ [](neg # "Authorized" => oauth = NoToken)

\* The completion signal was lost, and the negotiation failed for it having
\* made the authorize URL and sent nothing to the token endpoint.
C23_Witness ==
    /\ neg = "Failed"
    /\ failReason = "oauth callback is called"
    /\ csrf_token \in CsrfTokens
    /\ received = NoPayload
    /\ tokenReqs = 0

\* C24: the graceful-shutdown signal is sent at most once, by the handler
\* of the first callback to fire and after that handler has handed its
\* payload to the completion signal (which took it, unless the negotiation
\* had already given up on opening the authorize URL); the listener stops
\* accepting only by that signal, or by the failure of its own task, which
\* also drops the single-use state: while the state is there the listener
\* accepts.
C24_ShutdownOnceAfterDelivery ==
    /\ [](downCount <= 1)
    /\ [](downCount > 0 => (fired # <<>> /\ handlers[fired[1]].pc = "replied"))
    /\ [](slot => serverUp)
    /\ [][/\ downCount' # downCount
                => /\ fired # <<>>
                   /\ handlers[fired[1]].pc = "shut"
                   /\ failReason # "forward to Twitter for authorization"
                         => delivered = <<FirstFired>>
          /\ (serverUp /\ ~serverUp')
                => \/ downCount' = downCount + 1
                   \/ (fired = <<>> /\ slot /\ ~slot')]_vars

\* The first callback's handler has delivered, signalled and replied; the
\* listener accepts no more.
C24_Witness ==
    /\ downCount = 1
    /\ ~serverUp
    /\ handlers[1].pc = "replied"
    /\ handlers[2].pc = "none"
    /\ delivered = <<handlers[1].payload>>

\* C25: the handler of a callback that runs after the single-use state was
\* taken panics ("only called once"): that step delivers nothing, signals
\* no shutdown and leaves the negotiation and its outcome as they are; the
\* handler, once panicked, never runs again.
C25_SecondCallbackIsFatal ==
    /\ [][\A h \in H :
            /\ (handlers[h].pc = "lock" /\ handlers'[h].pc # "lock" /\ fired # <<>>)
                  => /\ handlers'[h].pc = "panicked"
                     /\ UNCHANGED <<slot, rx, fired, delivered, downCount,
                                    serverUp, neg, failReason, received,
                                    tokenReqs, oauth>>
            /\ handlers[h].pc = "panicked" => handlers'[h] = handlers[h]]_vars
    /\ [](\A h \in H :
            handlers[h].pc = "panicked"
               => /\ Len(fired) = 1 /\ fired[1] # h
                  /\ Len(delivered) <= 1
                  /\ downCount <= 1
                  /\ received # NoPayload => received = FirstFired)

\* The second callback panicked after the first had decided the outcome.
C25_Witness ==
    /\ handlers[1].pc = "replied"
    /\ handlers[2].pc = "panicked"
    /\ neg = "Authorized"
    /\ downCount = 1

----------------------------------------------------------------------------
(* Requests that cannot be cloned, and 429s without a reset (SpecCall) *)

\* C26: a call whose request cannot be cloned is never reissued and never
\* sleeps (and so never reads the reset header): whatever is answered to
\* its one request, a 429 included, is returned to the caller as it is.
C26_UncloneableReturns429 ==
    \A c \in CallIds :
        (calls[c].st # "none" /\ ~calls[c].cloneable)
           => /\ calls[c].st \in {"inflight", "done"}
              /\ Sends(c) = 1
              /\ calls[c].retries = 0
              /\ ~calls[c].slept
              /\ calls[c].last # NoOutcome
                    => (calls[c].st = "done" /\ calls[c].result = calls[c].last)

\* A 429 was returned to the caller of a request that could not be cloned.
C26_Witness ==
    /\ ~calls[0].cloneable
    /\ calls[0].st = "done"
    /\ calls[0].result \in TooManyRequests
    /\ calls[0].result.reset = LastResetSec
    /\ Sends(0) = 1

\* C30: when the retry decision is taken (the request has a clone) on a 429
\* whose x-rate-limit-reset is absent, not text or not a number, the call
\* panics there and then: the request is not reissued, nothing is returned
\* to the caller, and the call never moves again.
C30_BadResetHeaderPanics ==
    /\ [](\A c \in CallIds :
            (/\ calls[c].cloneable
             /\ calls[c].last \in TooManyRequests
             /\ calls[c].last.reset < 0)
               => /\ calls[c].st = "panicked"
                  /\ calls[c].result = NoOutcome
                  /\ Sends(c) = calls[c].retries + 1)
    /\ [](\A c \in CallIds :
            calls[c].st = "panicked"
               => (calls[c].last \in TooManyRequests /\ calls[c].last.reset < 0))
    /\ [][\A c \in CallIds :
            calls[c].st = "panicked"
               => (calls'[c] = calls[c] /\ Sends(c)' = Sends(c))]_vars

\* The second answer to a call was a 429 without a usable header.
C30_Witness ==
    /\ calls[0].st = "panicked"
    /\ calls[0].retries = 1
    /\ Sends(0) = 2
    /\ calls[0].last.reset < 0

----------------------------------------------------------------------------
(* Malformed elements and the routing of retweets (SpecArchive) *)

\* The tokens of the entry behind its first `[`, whitespace left out.
TokensBehindOpen(entry) ==
    SelectSeq(SubSeq(entry, FirstIndex(entry, "[") + 1, Len(entry)),
              LAMBDA ch : ch # " ")

\* The array of the entry starts with n elements, each followed by a comma,
\* and where element n is due there is a token that is no element (and that
\* is not the `]` of an empty array).
FirstMalformedAt(entry, n) ==
    LET toks == TokensBehindOpen(entry) IN
    /\ FirstIndex(entry, "[") > 0
    /\ 2 * n + 1 <= Len(toks)
    /\ \A m \in 1..(2 * n) :
          IF m % 2 = 1 THEN toks[m] \in Elements ELSE toks[m] = ","
    /\ toks[2 * n + 1] \notin Elements
    /\ ~(n = 0 /\ toks[1] = "]")

\* C27: when the first malformed element of the array of an entry is the
\* one at position n, the elements 0..n-1 are decoded and go through the
\* filter-map closure in their order, one per round, and no other element
\* ever does; the collection then fails with the parse error, and never
\* ends with a collection.
C27_StopsAtFirstMalformed ==
    \A n \in 0..MaxEntryLen :
        (WasRead /\ FirstMalformedAt(arc.file, n)) =>
            LET toks == TokensBehindOpen(arc.file)
                want == [m \in 1..n |-> Decode(arc.datafile, toks[2 * m - 1])]
            IN /\ arc.pc \in {"iter", "failed"}
               /\ IsPrefixOf(arc.yielded, want)
               /\ arc.out = Ids(Kept(arc.yielded))
               /\ arc.oldies = Ids(PutAside(arc.yielded))
               /\ arc.pc = "failed"
                     => (arc.err = "parse" /\ arc.yielded = want)

\* One element went through the closure before the second failed to decode;
\* the element behind the malformed one was never reached.
C27_Witness ==
    /\ arc.pc = "failed"
    /\ arc.err = "parse"
    /\ arc.datafile = "tweet"
    /\ arc.file = <<"[", "b", ",", "x", "a">>
    /\ Len(arc.yielded) = 1
    /\ arc.out = <<>>
    /\ arc.oldies = <<2>>

\* The ids of the tweets of the model whose text begins with "RT @".
RetweetIds == {2, 4}

\* C28: of the records decoded from data/tweet.js, those whose text begins
\* with "RT @" have their id in the side list and all others have theirs in
\* the main list: each list holds its ids in the order of the archive, and
\* each record's id is in exactly one of them, once.
C28_RetweetsPutAside ==
    (WasRead /\ arc.datafile = "tweet") =>
        /\ arc.oldies = SelectSeq(Ids(arc.yielded), LAMBDA id : id \in RetweetIds)
        /\ arc.out = SelectSeq(Ids(arc.yielded), LAMBDA id : id \notin RetweetIds)
        /\ Len(arc.out) + Len(arc.oldies) = Len(arc.yielded)
        /\ (arc.pc = "done" /\ WellFormed(arc.file))
              => Ids(arc.yielded) =
                    [m \in 1..((Len(ArrayTokens(arc.file)) + 1) \div 2) |->
                        IdOf(ArrayTokens(arc.file)[2 * m - 1])]

\* Two retweets and two other tweets, interleaved, each list in the order
\* of the archive.
C28_Witness ==
    /\ arc.pc = "done"
    /\ arc.datafile = "tweet"
    /\ arc.file = <<"[", "d", ",", "c", ",", "b", ",", "a", "]">>
    /\ arc.out = <<3, 1>>
    /\ arc.oldies = <<4, 2>>

----------------------------------------------------------------------------
(* The report stage (SpecLoad) *)

\* C29: whenever main() has filled its lists from a dataset load() returned,
\* the map of tweet lists has an entry for each of the seven group keys, so
\* that the assertion over the groups holds and main() does not panic.
C29_EveryGroupHasAList ==
    main.pc # "load"
        => (main.pc = "page" /\ \A id \in Groups : id \in main.lists_of_tweets)

----------------------------------------------------------------------------
(* Callback requests that are no redirect (SpecAuth) *)

\* The query has the success shape {code, state} or the error shape
\* {error, .., state}, the error being one of the codes of AuthErrorKind.
WellShaped(q) ==
    \/ (q.code # "none" /\ q.state # "none")
    \/ (q.error \in AuthErrorKind /\ q.state # "none")

\* C31: a request to /callback whose query has neither shape is answered
\* without the handler being run: the single-use state stays where it is,
\* nothing is delivered to the negotiation, no shutdown is signalled and the
\* negotiation does not move, then and ever after on behalf of that request;
\* and a well-formed callback that comes behind rejected ones only takes the
\* state as the first callback does.
C31_MalformedQueryLeavesState ==
    /\ [](\A h \in H :
            (handlers[h].pc # "none" /\ ~WellShaped(handlers[h].query))
               => /\ handlers[h].pc = "rejected"
                  /\ handlers[h].payload = NoPayload
                  /\ \A j \in 1..Len(fired) : fired[j] # h)
    /\ [](\A h \in H :
            (handlers[h].pc # "none" /\ WellShaped(handlers[h].query))
               => (handlers[h].pc # "rejected" /\ handlers[h].payload \in Redirect))
    /\ [][\A h \in H :
            /\ (handlers[h].pc = "none" /\ handlers'[h].pc # "none")
                  => UNCHANGED <<slot, rx, serverUp, downCount, fired, delivered,
                                 received, neg, failReason, tokenReqs, oauth>>
            /\ handlers[h].pc = "rejected" => handlers'[h] = handlers[h]
            /\ (/\ handlers[h].pc = "lock" /\ handlers'[h].pc # "lock"
                /\ \A g \in H \ {h} :
                      handlers[g].pc \in {"none", "rejected", "lock"})
                  => /\ handlers'[h].pc = AfterTake
                     /\ fired = <<>> /\ fired' = <<h>>
                     /\ slot /\ ~slot']_vars

\* A malformed request was answered first; the callback behind it was the
\* first to fire and decided the negotiation.
C31_Witness ==
    /\ handlers[1].pc = "rejected"
    /\ handlers[2].pc = "replied"
    /\ fired = <<2>>
    /\ delivered = <<handlers[2].payload>>
    /\ downCount = 1
    /\ neg = "Authorized"

====
